---- MODULE Spec2Model ----
(***************************************************************************)
(* BEAR_Agent (algos/offline/bear.py): the agent object, its checkpoint    *)
(* file and the operations train / learn / store_agent_checkpoint /        *)
(* load_agent_checkpoint, as a state machine.                              *)
(*                                                                         *)
(* Numbers are fixed point.  Network parameters are integers (one integer  *)
(* stands for a whole parameter vector); log-space multipliers are         *)
(* integers in units of 1.0; exp() is the table ExpMilli (thousandths).    *)
(* A torch tensor is an object on `heap` with a data and a grad slot, so   *)
(* that two references to one tensor and two tensors of equal value are    *)
(* told apart.  A grad slot is <<>> (None) or <<g>>.                       *)
(***************************************************************************)
EXTENDS Integers, Sequences, FiniteSets, TLC

VARIABLES
    self,        \* the BEAR_Agent object: its fields
    heap,        \* tensor objects: log_alpha_prime / log_alpha as built or as loaded
    ckpt,        \* the file at checkpoint_path: <<>> (absent) or <<record>>
    lastOp,      \* the operation that ended last, and how it ended
    lastTrain,   \* what the last train() call did (observation of its locals)
    saved,       \* the agent's whole learnable state when the file was last written
    learn,       \* the running / finished learn() call
    tgt          \* the critic-target computation of train(), value by value

vars == <<self, heap, ckpt, lastOp, lastTrain, saved, learn, tgt>>

----------------------------------------------------------------------------
\* Bounds of the model.

\* train() is called at most this many times on one agent object, and not once
\* the step counter has reached this value
MaxTrainStep == 2
\* the largest displacement one Adam step gives a log-space multiplier
MaxStepSize == 6
\* the largest batch the data buffer serves
MaxBatch == 2
\* the change one optimizer step makes to a network's parameters
ParamStep == 20
\* a configured n_target_samples other than the default
OtherTargetSamples == 3
\* np.prod(env.action_space.shape): the dimension of the action space
ActionDim == 1

----------------------------------------------------------------------------
\* Program constants.

\* clamp_(min=-5.0, max=10.0)
LogAlphaMin == -5
LogAlphaMax == 10
\* torch.tensor(0.0, ...): log_alpha_prime at construction
LogAlphaPrimeInit == 0
\* torch.zeros(1, ...): log_alpha at construction
LogAlphaInit == 0
\* alpha=0.5, in thousandths
AlphaDefaultMilli == 500
\* reshape(obs.shape[0], 10, 1)
ReshapeGroup == 10
\* n_target_samples=10
DefaultTargetSamples == 10
\* tau=0.05 as TauNum / TauDen
TauNum == 1
TauDen == 20
\* lagrange_thresh=0.05, in units of 0.025
LagrangeThresh == 2

\* backward() without retain_graph: the graph is freed
RetainGraphDropped == FALSE

\* alpha_prime_loss.backward(retain_graph=True)
AlphaPrimeBackwardRetainsGraph == TRUE

----------------------------------------------------------------------------
\* Inputs of one train() call: what the data buffer, the black-box networks
\* and Adam's scaling contribute.

\* mean support distance of a batch, in units of 0.025 (always positive)
MmdVals == {1, 2, 3}
\* size of the displacement Adam gives log_alpha_prime
StepSizes == {MaxStepSize}
\* mean of log_prob + target_entropy over the batch
EntGaps == {1}
\* the batch size of the data buffer handed to the constructor
BatchSizes == {MaxBatch}
TrainInputs == [B : BatchSizes, mmd : MmdVals, size : StepSizes, ent : EntGaps]

----------------------------------------------------------------------------
\* Numeric helpers.

Sign(x) == IF x > 0 THEN 1 ELSE IF x < 0 THEN -1 ELSE 0

Max(a, b) == IF a >= b THEN a ELSE b

\* torch.exp on a log-space multiplier: floor(1000 * e^x), tabulated for x in -12..12
ExpMilli(x) ==
    LET table == <<0, 0, 0, 0, 0, 0, 2, 6, 18, 49, 135, 367, 1000, 2718, 7389,
                   20085, 54598, 148413, 403428, 1096633, 2980957, 8103083,
                   22026465, 59874141, 162754791>>
    IN  table[x + 13]

\* Tensor.clamp (not in place): the result is dropped, the tensor keeps its value
ClampUnbounded(x) == x

\* Tensor.clamp_(min=-5.0, max=10.0)
Clamp(x) ==
    IF x < LogAlphaMin THEN LogAlphaMin
    ELSE IF x > LogAlphaMax THEN LogAlphaMax
    ELSE x

----------------------------------------------------------------------------
\* Tensor objects.

TensorIds == {"lap_built", "lap_loaded", "la_built", "la_loaded"}

NoTensor == [data |-> 0, grad |-> <<>>]

NewTensor(v) == [data |-> v, grad |-> <<>>]

\* backward(): the gradient of a loss is added to the leaf's grad slot
AddGrad(h, t, g) ==
    [h EXCEPT ![t].grad = IF @ = <<>> THEN <<g>> ELSE <<@[1] + g>>]

\* a step without zero_grad(): gradients left on the tensor stay
ZeroGradKeeps(h, t) == h

\* optimizer.zero_grad() for an optimizer whose one parameter is tensor t (grads
\* are set to None; were they zeroed instead, the step would still move only t)
ZeroGrad(h, t) == [h EXCEPT ![t].grad = <<>>]

\* Adam.step() on tensor t: a parameter without a gradient is skipped; otherwise
\* the displacement opposes the gradient's sign, its size is the input `size`
AdamStep(h, t, size) ==
    IF h[t].grad = <<>> THEN h
    ELSE [h EXCEPT ![t].data = @ - Sign(h[t].grad[1]) * size]

\* the state of an Adam optimizer: the number of steps it has taken
AdamCount(h, t, n) == IF h[t].grad = <<>> THEN n ELSE n + 1

\* one optimizer step on a network's parameters
NetStep(p) == p + ParamStep

\* soft_target_update: target = tau * online + (1 - tau) * target
SoftUpdate(online, target) == (TauNum * online + (TauDen - TauNum) * target) \div TauDen

\* Tensor.reshape(B, 10, 1): the element count must be kept
ReshapeOk(numel, B) == numel = B * ReshapeGroup * 1

----------------------------------------------------------------------------
\* train(), statement by statement.  m is the call's frame: the agent and the
\* heap as the call has changed them so far, the exception raised (err), the
\* state of the support-distance computation graph, and the record of what the
\* call did.  A statement after a raised exception does not run.

Frame(s, h) ==
    [self |-> s, heap |-> h, err |-> "none", ops |-> <<>>, graph |-> "none",
     start_step |-> s.train_step, mmd |-> 0, sac |-> FALSE, penalty |-> FALSE,
     mult_grad |-> <<>>, applied |-> <<>>, lap_pre |-> h[s.log_alpha_prime].data,
     lap_unclamped |-> 0, lap_clamped |-> 0, penalty_lap |-> 0,
     leftover |-> h[s.log_alpha_prime].grad]

\* cvae_loss; cvae_optimizer.zero_grad(); backward(); step()
CvaeUpdate(m) ==
    IF m.err # "none" THEN m
    ELSE [m EXCEPT !.self.cvae_net = NetStep(@),
                   !.self.cvae_optimizer = @ + 1,
                   !.ops = Append(@, "cvae")]

\* the critic target: repeat_interleave gives B * n_target_samples rows, which
\* reshape(B, 10, 1) must regroup
CriticTarget(m, B) ==
    IF m.err # "none" THEN m
    ELSE IF ~ReshapeOk(B * m.self.n_target_samples, B) THEN [m EXCEPT !.err = "reshape"]
    ELSE m

\* critic_loss1; q_optimizer1.zero_grad(); backward(); step()
Critic1Update(m) ==
    IF m.err # "none" THEN m
    ELSE [m EXCEPT !.self.q_net1 = NetStep(@),
                   !.self.q_optimizer1 = @ + 1,
                   !.ops = Append(@, "critic1")]

\* critic_loss2; q_optimizer2.zero_grad(); backward(); step()
Critic2Update(m) ==
    IF m.err # "none" THEN m
    ELSE [m EXCEPT !.self.q_net2 = NetStep(@),
                   !.self.q_optimizer2 = @ + 1,
                   !.ops = Append(@, "critic2")]

\* mmd_loss: computed once, its graph built once
SupportDistance(m, mmd) ==
    IF m.err # "none" THEN m
    ELSE [m EXCEPT !.mmd = mmd, !.graph = "built", !.ops = Append(@, "mmd")]

\* gradient of alpha_prime_loss = -(exp(log_alpha_prime) * (mmd_loss - thresh)).mean()
\* with respect to log_alpha_prime
AlphaPrimeLossGrad(lap, mmd) == -(ExpMilli(lap) * (mmd - LagrangeThresh))

\* gradient of (exp(log_alpha_prime) * mmd_loss).mean() with respect to log_alpha_prime
PenaltyGrad(lap, mmd) == ExpMilli(lap) * mmd

\* alpha_prime_loss; alpha_prime_optimizer.zero_grad(); backward(retain_graph=True);
\* alpha_prime_optimizer.step().  The loss reads self.log_alpha_prime; zero_grad
\* and step act on the tensor the optimizer was built with.
AlphaPrimeUpdate(m, size) ==
    IF m.err # "none" THEN m
    ELSE
      LET t   == m.self.log_alpha_prime
          p   == m.self.alpha_prime_optimizer.param
          g   == AlphaPrimeLossGrad(m.heap[t].data, m.mmd)
          h1  == ZeroGrad(m.heap, p)
          h2  == AddGrad(h1, t, g)
          h3  == AdamStep(h2, p, size)
      IN  [m EXCEPT !.heap = h3,
                    !.self.alpha_prime_optimizer.step = AdamCount(h2, p, @),
                    !.graph = IF AlphaPrimeBackwardRetainsGraph THEN "retained" ELSE "freed",
                    !.mult_grad = <<g>>,
                    !.applied = IF p = t THEN h2[p].grad ELSE <<>>,
                    !.lap_unclamped = h3[t].data,
                    !.ops = Append(@, "alpha_prime")]

\* self.log_alpha_prime.data.clamp_(min=-5.0, max=10.0)
AlphaPrimeClamp(m) ==
    IF m.err # "none" THEN m
    ELSE
      LET t == m.self.log_alpha_prime
      IN  [m EXCEPT !.heap[t].data = Clamp(@),
                    !.lap_clamped = Clamp(m.heap[t].data),
                    !.ops = Append(@, "clamp")]

\* if self.train_step > self.warmup_step
WarmupOver(train_step, warmup_step) == train_step > warmup_step

\* policy_loss, actor_loss; policy_optimizer.zero_grad(); actor_loss.backward();
\* policy_optimizer.step().  The backward pass runs through the support-distance
\* graph a second time, and leaves gradients on log_alpha_prime and, through
\* self.alpha, on the tensor self.alpha was computed from.
PolicyUpdate(m, ent) ==
    IF m.err # "none" THEN m
    ELSE IF m.graph = "freed" THEN [m EXCEPT !.err = "freed_graph"]
    ELSE
      LET t    == m.self.log_alpha_prime
          lap  == m.heap[t].data
          sac  == WarmupOver(m.self.train_step, m.self.warmup_step)
          h1   == AddGrad(m.heap, t, PenaltyGrad(lap, m.mmd))
          h2   == IF sac /\ m.self.alpha_src # "null"
                  THEN AddGrad(h1, m.self.alpha_src, m.self.alpha * (ent + ActionDim))
                  ELSE h1
      IN  [m EXCEPT !.heap = h2,
                    !.self.policy_net = NetStep(@),
                    !.self.policy_optimizer = @ + 1,
                    !.graph = "freed",
                    !.sac = sac,
                    !.penalty = TRUE,
                    !.penalty_lap = lap,
                    !.ops = Append(@, "policy")]

\* if self.auto_alpha_tuning: alpha_loss; alpha_optimizer.zero_grad(); backward();
\* step(); self.alpha = self.log_alpha.exp()
AlphaUpdate(m, ent) ==
    IF m.err # "none" \/ ~m.self.auto_alpha_tuning THEN m
    ELSE
      LET t   == m.self.log_alpha
          p   == m.self.alpha_optimizer.param
          h1  == ZeroGrad(m.heap, p)
          h2  == AddGrad(h1, t, -(1000 * ent))
          h3  == AdamStep(h2, p, 1)
      IN  [m EXCEPT !.heap = h3,
                    !.self.alpha_optimizer.step = AdamCount(h2, p, @),
                    !.self.alpha = ExpMilli(h3[t].data),
                    !.self.alpha_src = t,
                    !.ops = Append(@, "alpha")]

\* soft_target_update(q_net1, target_q_net1); soft_target_update(q_net2, target_q_net2)
TargetSync(m) ==
    IF m.err # "none" THEN m
    ELSE [m EXCEPT !.self.target_q_net1 = SoftUpdate(m.self.q_net1, @),
                   !.self.target_q_net2 = SoftUpdate(m.self.q_net2, @),
                   !.ops = Append(@, "target_sync")]

\* self.train_step += 1
StepIncrement(m) ==
    IF m.err # "none" THEN m
    ELSE [m EXCEPT !.self.train_step = @ + 1, !.ops = Append(@, "train_step")]

\* the body of train(), in the order of its statements
TrainBody(s, h, in) ==
    LET m0  == Frame(s, h)
        m1  == CvaeUpdate(m0)
        m2  == CriticTarget(m1, in.B)
        m3  == Critic1Update(m2)
        m4  == Critic2Update(m3)
        m5  == SupportDistance(m4, in.mmd)
        m6  == AlphaPrimeUpdate(m5, in.size)
        m7  == AlphaPrimeClamp(m6)
        m8  == PolicyUpdate(m7, in.ent)
        m9  == AlphaUpdate(m8, in.ent)
        m10 == TargetSync(m9)
    IN  StepIncrement(m10)

\* what a train() call did, as the properties below read it
Observed(m) ==
    [start_step |-> m.start_step, err |-> m.err, ops |-> m.ops, sac |-> m.sac,
     penalty |-> m.penalty, mult_grad |-> m.mult_grad, applied |-> m.applied,
     lap_pre |-> m.lap_pre, lap_unclamped |-> m.lap_unclamped,
     lap_clamped |-> m.lap_clamped, penalty_lap |-> m.penalty_lap,
     auto |-> m.self.auto_alpha_tuning, warmup_step |-> m.self.warmup_step,
     aliased |-> m.self.alpha_prime_optimizer.param = m.self.log_alpha_prime,
     mmd |-> m.mmd, leftover |-> m.leftover]

NoTrain ==
    [start_step |-> 0, err |-> "never", ops |-> <<>>, sac |-> FALSE,
     penalty |-> FALSE, mult_grad |-> <<>>, applied |-> <<>>,
     lap_pre |-> 0, lap_unclamped |-> 0, lap_clamped |-> 0, penalty_lap |-> 0,
     auto |-> FALSE, warmup_step |-> 0, aliased |-> TRUE, mmd |-> 0,
     leftover |-> <<>>]

----------------------------------------------------------------------------
\* Construction.

\* warmup_step of the configurations explored
WarmupBound == 0
\* the largest log_interval of the configurations explored
LogIntervalBound == 2

\* the constructor's arguments that the operations below read
Configs ==
    [auto_alpha_tuning : BOOLEAN,
     n_target_samples : {DefaultTargetSamples, OtherTargetSamples},
     warmup_step : {WarmupBound},
     max_train_step : {MaxTrainStep},
     log_interval : 1..LogIntervalBound,
     resume : BOOLEAN]

\* resume and log_interval are read by learn() alone: the configurations that
\* differ for a caller of train / store_agent_checkpoint / load_agent_checkpoint
ApiConfigs == {c \in Configs : ~c.resume /\ c.log_interval = LogIntervalBound}

\* parameters of a network handed to the constructor
FreshParam == 0

\* __init__: the target critics are deep copies of the critics; log_alpha and its
\* optimizer exist only with auto_alpha_tuning; every optimizer is built on the
\* tensors that exist at this moment
NewAgent(c) ==
    [policy_net |-> FreshParam, q_net1 |-> FreshParam, q_net2 |-> FreshParam,
     target_q_net1 |-> FreshParam, target_q_net2 |-> FreshParam,
     cvae_net |-> FreshParam,
     policy_optimizer |-> 0, q_optimizer1 |-> 0, q_optimizer2 |-> 0,
     cvae_optimizer |-> 0,
     alpha |-> IF c.auto_alpha_tuning THEN ExpMilli(LogAlphaInit) ELSE AlphaDefaultMilli,
     alpha_src |-> IF c.auto_alpha_tuning THEN "la_built" ELSE "null",
     auto_alpha_tuning |-> c.auto_alpha_tuning,
     log_alpha |-> IF c.auto_alpha_tuning THEN "la_built" ELSE "null",
     alpha_optimizer |-> [param |-> IF c.auto_alpha_tuning THEN "la_built" ELSE "null",
                          step |-> 0],
     max_train_step |-> c.max_train_step,
     train_step |-> 0,
     resume |-> c.resume,
     n_target_samples |-> c.n_target_samples,
     warmup_step |-> c.warmup_step,
     log_alpha_prime |-> "lap_built",
     alpha_prime_optimizer |-> [param |-> "lap_built", step |-> 0],
     log_interval |-> c.log_interval]

NewHeap ==
    [t \in TensorIds |->
        IF t = "lap_built" THEN NewTensor(LogAlphaPrimeInit)
        ELSE IF t = "la_built" THEN NewTensor(LogAlphaInit)
        ELSE NoTensor]

----------------------------------------------------------------------------
\* The checkpoint file.

\* the value of the tensor a field refers to (0 when the field does not exist)
Value(s, h, ref) == IF ref = "null" THEN 0 ELSE h[ref].data

\* store_agent_checkpoint: the record written by torch.save
Checkpoint(s, h) ==
    LET base == [q_net1 |-> s.q_net1, q_net2 |-> s.q_net2, policy_net |-> s.policy_net,
                 q_optimizer1 |-> s.q_optimizer1, q_optimizer2 |-> s.q_optimizer2,
                 policy_optimizer |-> s.policy_optimizer,
                 train_step |-> s.train_step]
        opt  == IF s.auto_alpha_tuning
                THEN [log_alpha |-> Value(s, h, s.log_alpha),
                      alpha_optimizer |-> s.alpha_optimizer.step]
                ELSE <<>>
        lap  == [log_alpha_prime |-> Value(s, h, s.log_alpha_prime),
                 alpha_prime_optimizer |-> s.alpha_prime_optimizer.step]
    IN  IF s.auto_alpha_tuning THEN base @@ opt @@ lap ELSE base @@ lap

\* load_agent_checkpoint, statement by statement: torch.load raises when the file
\* is absent, checkpoint[key] raises when the key is
LoadBody(s, h, file) ==
    IF file = <<>> THEN [self |-> s, heap |-> h, err |-> "no_file"]
    ELSE
      LET c  == file[1]
          s1 == [s EXCEPT !.q_net1 = c.q_net1, !.q_net2 = c.q_net2,
                          !.policy_net = c.policy_net,
                          !.q_optimizer1 = c.q_optimizer1,
                          !.q_optimizer2 = c.q_optimizer2,
                          !.policy_optimizer = c.policy_optimizer,
                          !.train_step = c.train_step]
          missing == s.auto_alpha_tuning /\ "log_alpha" \notin DOMAIN c
          s2 == IF s.auto_alpha_tuning /\ ~missing
                THEN [s1 EXCEPT !.log_alpha = "la_loaded",
                                !.alpha_optimizer.step = c.alpha_optimizer]
                ELSE s1
          h2 == IF s.auto_alpha_tuning /\ ~missing
                THEN [h EXCEPT !["la_loaded"] = NewTensor(c.log_alpha)]
                ELSE h
          s3 == [s2 EXCEPT !.log_alpha_prime = "lap_loaded",
                           !.alpha_prime_optimizer.step = c.alpha_prime_optimizer]
          h3 == [h2 EXCEPT !["lap_loaded"] = NewTensor(c.log_alpha_prime)]
      IN  IF missing THEN [self |-> s1, heap |-> h, err |-> "key_error"]
          ELSE [self |-> s3, heap |-> h3, err |-> "none"]

\* everything the agent learns: the six networks, the multipliers, the optimizer
\* states and the step counter
FullState(s, h) ==
    [cvae_net |-> s.cvae_net, q_net1 |-> s.q_net1, q_net2 |-> s.q_net2,
     target_q_net1 |-> s.target_q_net1, target_q_net2 |-> s.target_q_net2,
     policy_net |-> s.policy_net,
     log_alpha_prime |-> Value(s, h, s.log_alpha_prime),
     log_alpha |-> Value(s, h, s.log_alpha),
     cvae_optimizer |-> s.cvae_optimizer, q_optimizer1 |-> s.q_optimizer1,
     q_optimizer2 |-> s.q_optimizer2, policy_optimizer |-> s.policy_optimizer,
     alpha_prime_optimizer |-> s.alpha_prime_optimizer.step,
     alpha_optimizer |-> s.alpha_optimizer.step,
     train_step |-> s.train_step]

----------------------------------------------------------------------------
\* Operations.

LearnIdle == [status |-> "idle", start |-> 0, calls |-> 0]

TgtIdle == [phase |-> "idle"]

Op(name, result, pristine) == [op |-> name, result |-> result, pristine |-> pristine]

InitWith(cs) ==
    /\ \E c \in cs : self = NewAgent(c)
    /\ heap = NewHeap
    /\ ckpt = <<>>
    /\ lastOp = Op("construct", "ok", TRUE)
    /\ lastTrain = NoTrain
    /\ saved = <<>>
    /\ learn = LearnIdle
    /\ tgt = TgtIdle

\* a new process builds a new agent; the checkpoint file stays on disk
Construct(c) ==
    /\ learn.status # "running"
    /\ self' = NewAgent(c)
    /\ heap' = NewHeap
    /\ lastOp' = Op("construct", "ok", TRUE)
    /\ lastTrain' = NoTrain
    /\ learn' = LearnIdle
    /\ UNCHANGED <<ckpt, saved, tgt>>

\* agent.train()
Train(in) ==
    /\ self.train_step < MaxTrainStep
    /\ self.cvae_optimizer < MaxTrainStep
    /\ LET m == TrainBody(self, heap, in)
       IN  /\ self' = m.self
           /\ heap' = m.heap
           /\ lastTrain' = Observed(m)
           /\ lastOp' = Op("train", m.err, FALSE)
    /\ UNCHANGED <<ckpt, saved, learn, tgt>>

\* agent.store_agent_checkpoint()
Store ==
    /\ ckpt' = <<Checkpoint(self, heap)>>
    /\ saved' = <<[state |-> FullState(self, heap),
                   auto_alpha_tuning |-> self.auto_alpha_tuning]>>
    /\ lastOp' = Op("store", "ok", FALSE)
    /\ UNCHANGED <<self, heap, lastTrain, learn, tgt>>

\* agent.load_agent_checkpoint()
Load ==
    /\ LET r == LoadBody(self, heap, ckpt)
       IN  /\ self' = r.self
           /\ heap' = r.heap
           /\ lastOp' = Op("load", r.err, lastOp.op = "construct")
    /\ UNCHANGED <<ckpt, saved, lastTrain, learn, tgt>>

\* The agent as its caller drives it, one call at a time.
Init == InitWith(ApiConfigs)

Next ==
    \/ \E c \in ApiConfigs : Construct(c)
    \/ \E in \in TrainInputs : Train(in)
    \/ Store
    \/ Load

Spec == Init /\ [][Next]_vars

----------------------------------------------------------------------------
\* learn().

\* learn(), up to its loop: load_agent_checkpoint() on resume, otherwise
\* del_all_files_in_dir(result_dir), the directory that holds checkpoint.pth
LearnBegin ==
    /\ learn.status # "running"
    /\ IF self.resume
       THEN LET r == LoadBody(self, heap, ckpt)
            IN  /\ self' = r.self
                /\ heap' = r.heap
                /\ learn' = IF r.err = "none"
                            THEN [status |-> "running", start |-> r.self.train_step,
                                  calls |-> 0]
                            ELSE [status |-> "load_raised", start |-> 0, calls |-> 0]
                /\ lastOp' = Op("learn_begin", r.err, lastOp.op = "construct")
                /\ UNCHANGED <<ckpt, saved>>
       ELSE /\ ckpt' = <<>>
            /\ saved' = <<>>
            /\ learn' = [status |-> "running", start |-> self.train_step, calls |-> 0]
            /\ lastOp' = Op("learn_begin", "none", FALSE)
            /\ UNCHANGED <<self, heap>>
    /\ UNCHANGED <<lastTrain, tgt>>

\* one pass of learn()'s loop: train(); evaluate() every eval_freq steps (it reads
\* the agent and changes nothing); store_agent_checkpoint() every log_interval steps
LearnIter(in) ==
    /\ learn.status = "running"
    /\ self.train_step < self.max_train_step
    /\ self.cvae_optimizer < MaxTrainStep
    /\ LET m == TrainBody(self, heap, in)
           stores == m.err = "none" /\ m.self.train_step % m.self.log_interval = 0
       IN  /\ self' = m.self
           /\ heap' = m.heap
           /\ lastTrain' = Observed(m)
           /\ lastOp' = Op("learn_train", m.err, FALSE)
           /\ learn' = IF m.err = "none"
                       THEN [learn EXCEPT !.calls = @ + 1]
                       ELSE [learn EXCEPT !.status = "train_raised"]
           /\ ckpt' = IF stores THEN <<Checkpoint(m.self, m.heap)>> ELSE ckpt
           /\ saved' = IF stores
                       THEN <<[state |-> FullState(m.self, m.heap),
                               auto_alpha_tuning |-> m.self.auto_alpha_tuning]>>
                       ELSE saved
    /\ UNCHANGED tgt

\* learn()'s loop condition fails: learn() returns
LearnReturn ==
    /\ learn.status = "running"
    /\ ~(self.train_step < self.max_train_step)
    /\ learn' = [learn EXCEPT !.status = "returned"]
    /\ lastOp' = Op("learn_return", "ok", FALSE)
    /\ UNCHANGED <<self, heap, ckpt, saved, lastTrain, tgt>>

\* Processes that construct an agent and call learn() on it, one after another.
LearnInit == InitWith(Configs)

LearnNext ==
    \/ \E c \in Configs : Construct(c)
    \/ LearnBegin
    \/ \E in \in TrainInputs : LearnIter(in)
    \/ LearnReturn

LearnSpec == LearnInit /\ [][LearnNext]_vars

----------------------------------------------------------------------------
\* The critic target of train(), value by value.

\* gamma=0.99 as GammaNum / GammaDen
GammaNum == 99
GammaDen == 100
\* lmbda=0.75 as LmbdaNum / LmbdaDen
LmbdaNum == 3
LmbdaDen == 4

Min(a, b) == IF a <= b THEN a ELSE b

Actions == {0, 1}

\* the actions one forward pass of the stochastic policy can draw for rows 1..len:
\* constant or alternating
DrawPatterns == 0..3

Draw(p, k) ==
    CASE p = 0 -> 0
      [] p = 1 -> 1
      [] p = 2 -> k % 2
      [] OTHER -> (k + 1) % 2

\* policy_net(next_obs)[0]: one sampled action per row
PolicySample(p, len) == [k \in 1..len |-> Draw(p, k)]

\* a target critic: a linear function of observation and action, w its weights,
\* its output in units of 1/400
Weights == [obs : {0, 1}, act : {0, 1}]

TargetQ(w, o, a) == 400 * (w.obs * o + w.act * a)

\* torch.repeat_interleave(x, repeats=n, dim=0): every row n times, copies adjacent
RepeatInterleave(x, n) == [k \in 1..(Len(x) * n) |-> x[((k - 1) \div n) + 1]]

\* lmbda * min(q1, q2) + (1 - lmbda) * max(q1, q2)
SoftClip(q1, q2) == (LmbdaNum * Min(q1, q2) + (LmbdaDen - LmbdaNum) * Max(q1, q2)) \div LmbdaDen

RECURSIVE SeqMax(_)
SeqMax(x) == IF Len(x) = 1 THEN x[1] ELSE Max(x[1], SeqMax(Tail(x)))

\* x.reshape(B, 10, 1): row i of the result holds elements (i-1)*10+1 .. i*10
Reshape(x, B) == [i \in 1..B |-> [j \in 1..ReshapeGroup |-> x[(i - 1) * ReshapeGroup + j]]]

\* the `with torch.no_grad()` block of train(): the policy is sampled once for
\* each target critic (p1, p2 are the two forward passes' draws)
TargetBody(in, n) ==
    LET B     == Len(in.next_obs)
        rows  == RepeatInterleave(in.next_obs, n)
        acts1 == PolicySample(in.p1, Len(rows))
        acts2 == PolicySample(in.p2, Len(rows))
        q1    == [k \in 1..Len(rows) |-> TargetQ(in.w1, rows[k], acts1[k])]
        q2    == [k \in 1..Len(rows) |-> TargetQ(in.w2, rows[k], acts2[k])]
        q     == [k \in 1..Len(rows) |-> SoftClip(q1[k], q2[k])]
        ok    == ReshapeOk(Len(q), B)
        grp   == Reshape(q, B)
        own   == Reshape(rows, B)
        best  == [i \in 1..B |-> SeqMax(grp[i])]
    IN  [phase |-> IF ok THEN "done" ELSE "raised",
         n |-> n, next_obs |-> in.next_obs, rows |-> rows,
         acts1 |-> acts1, acts2 |-> acts2, q |-> q,
         owners |-> IF ok THEN own ELSE <<>>,
         target |-> IF ok
                    THEN [i \in 1..B |->
                            in.rews[i] + (GammaNum * (1 - in.done[i]) * best[i]) \div GammaDen]
                    ELSE <<>>]

\* a batch of B transitions: observations 1..B, rewards, done flags all 0 or all 1
TargetInputs ==
    {[next_obs |-> [i \in 1..B |-> i], rews |-> [i \in 1..B |-> i],
      done |-> [i \in 1..B |-> d], p1 |-> p1, p2 |-> p2, w1 |-> w1, w2 |-> w2] :
        B \in 1..MaxBatch, d \in {0, 1}, p1 \in DrawPatterns, p2 \in DrawPatterns,
        w1 \in Weights, w2 \in Weights}

TargetInit ==
    /\ \E c \in ApiConfigs : self = NewAgent(c)
    /\ heap = NewHeap
    /\ ckpt = <<>>
    /\ lastOp = Op("construct", "ok", TRUE)
    /\ lastTrain = NoTrain
    /\ saved = <<>>
    /\ learn = LearnIdle
    /\ \E in \in TargetInputs : tgt = [phase |-> "input", in |-> in]

\* lines 174-184 of one train() call
TargetCompute ==
    /\ tgt.phase = "input"
    /\ tgt' = TargetBody(tgt.in, self.n_target_samples)
    /\ UNCHANGED <<self, heap, ckpt, lastOp, lastTrain, saved, learn>>

TargetNext == TargetCompute

TargetSpec == TargetInit /\ [][TargetNext]_vars

----------------------------------------------------------------------------
\* Properties.

InClampRange(x) == LogAlphaMin <= x /\ x <= LogAlphaMax

\* the value of the agent's log_alpha_prime
LogAlphaPrime == heap[self.log_alpha_prime].data

\* C1: a completed train() call leaves the value-maximization term out of the
\* policy's loss exactly when the step counter at its start is below warmup_step,
\* and applies the support penalty always.
C1_SacIncludedFromWarmupStep ==
    lastTrain.err = "none" =>
        /\ lastTrain.penalty
        /\ lastTrain.sac <=> (lastTrain.start_step >= lastTrain.warmup_step)

\* C2: between operations log_alpha_prime lies in [-5, 10], so alpha_prime lies in
\* [exp(-5), exp(10)], and the value the support penalty of a train() call was
\* scaled by came from that range.
C2_LogAlphaPrimeClamped ==
    /\ InClampRange(LogAlphaPrime)
    /\ ExpMilli(LogAlphaMin) <= ExpMilli(LogAlphaPrime)
    /\ ExpMilli(LogAlphaPrime) <= ExpMilli(LogAlphaMax)
    /\ lastTrain.penalty => InClampRange(lastTrain.penalty_lap)

\* C2, its case: a multiplier step carried log_alpha_prime past 10, and the call
\* left it at 10.
C2_ClampApplied ==
    /\ lastOp.op = "train"
    /\ lastTrain.err = "none"
    /\ lastTrain.lap_unclamped > LogAlphaMax
    /\ lastTrain.penalty_lap = LogAlphaMax
    /\ LogAlphaPrime = LogAlphaMax

\* C3: a checkpoint loaded into a newly constructed agent with the same flags
\* gives the agent the whole learnable state of the moment the file was written.
C3_RoundTripRestoresFullState ==
    (/\ lastOp.op = "load"
     /\ lastOp.result = "none"
     /\ lastOp.pristine
     /\ saved # <<>>
     /\ saved[1].auto_alpha_tuning = self.auto_alpha_tuning)
        => FullState(self, heap) = saved[1].state

\* C4: a load_agent_checkpoint that ends in an error for a missing key has changed
\* nothing of the agent.
C4_FailedLoadChangesNothing ==
    [][(lastOp'.op = "load" /\ lastOp'.result = "key_error")
          => (self' = self /\ heap' = heap)]_vars

\* C5: a learn() call that started its loop with the counter at s has made
\* max(0, max_train_step - s) train() calls when it ends, and leaves the counter
\* at max(s, max_train_step).
C5_LearnRunsToMaxTrainStep ==
    learn.status \in {"returned", "train_raised"} =>
        /\ learn.calls = Max(0, self.max_train_step - learn.start)
        /\ self.train_step = Max(learn.start, self.max_train_step)

\* C6: for every n_target_samples the critic target is computed without error, and
\* group i of the regrouped target values holds exactly the n_target_samples draws
\* of next-observation i.
C6_TargetGroupsForEverySampleCount ==
    tgt.phase # "input" =>
        /\ tgt.phase = "done"
        /\ Len(tgt.owners) = Len(tgt.next_obs)
        /\ \A i \in 1..Len(tgt.owners) :
              /\ Len(tgt.owners[i]) = tgt.n
              /\ \A j \in 1..Len(tgt.owners[i]) : tgt.owners[i][j] = tgt.next_obs[i]

\* C7: both target critics are evaluated at one and the same drawn action for
\* every repeated next-observation.
C7_BothTargetCriticsSeeOneDraw ==
    tgt.phase # "input" => tgt.acts1 = tgt.acts2

\* the order of the updates of one train() call
TrainOrder(auto) ==
    <<"cvae", "critic1", "critic2", "mmd", "alpha_prime", "clamp", "policy">>
        \o (IF auto THEN <<"alpha">> ELSE <<>>) \o <<"target_sync", "train_step">>

IsPrefix(x, y) == Len(x) <= Len(y) /\ SubSeq(y, 1, Len(x)) = x

\* C8: the updates a train() call performs come in the one fixed order (all of
\* them when the call completes), and the policy's backward pass never meets a
\* freed support-distance graph.
C8_FixedOrderGraphRetained ==
    lastTrain.err # "never" =>
        /\ lastTrain.err # "freed_graph"
        /\ IsPrefix(lastTrain.ops, TrainOrder(lastTrain.auto))
        /\ lastTrain.err = "none" => lastTrain.ops = TrainOrder(lastTrain.auto)

\* C8, its case: a train() call with the temperature step ran to its end.
C8_TrainCompleted ==
    /\ lastTrain.err = "none"
    /\ lastTrain.auto
    /\ lastTrain.sac
    /\ Len(lastTrain.ops) = 10

\* C9: the support penalty of a train() call is scaled by log_alpha_prime as the
\* same call's multiplier step and clamp left it, and the gradient a multiplier
\* step applies to the agent's log_alpha_prime is the multiplier loss's alone.
C9_PenaltyLeavesMultiplierAlone ==
    lastTrain.err = "none" =>
        /\ lastTrain.penalty_lap = lastTrain.lap_clamped
        /\ lastTrain.applied \in {<<>>, lastTrain.mult_grad}

\* C9, its case: the call began with the previous call's penalty gradient still
\* on log_alpha_prime, and the multiplier optimizer stepped that tensor.
C9_LeftoverGradientDropped ==
    /\ lastTrain.err = "none"
    /\ lastTrain.leftover # <<>>
    /\ lastTrain.aliased
    /\ lastTrain.applied = lastTrain.mult_grad
    /\ lastTrain.mult_grad[1] # 0

\* C10: the multiplier optimizer steps the tensor the agent reads as
\* log_alpha_prime, and a train() call with a non-zero multiplier gradient that
\* starts strictly inside the clamp range changes log_alpha_prime.
C10_OptimizerStepsAgentMultiplier ==
    /\ self.alpha_prime_optimizer.param = self.log_alpha_prime
    /\ (/\ lastTrain.err = "none"
        /\ lastTrain.mult_grad[1] # 0
        /\ LogAlphaMin < lastTrain.lap_pre
        /\ lastTrain.lap_pre < LogAlphaMax)
          => lastTrain.lap_clamped # lastTrain.lap_pre

====
